---- MODULE Spec2Model ----
(***************************************************************************)
(* postgrest.py: PostgrestResource (record operations over HTTP) and       *)
(* PostgrestAPI (connection URL normalisation), together with the          *)
(* PostgREST table the requests are sent to.                               *)
(*                                                                         *)
(* The table has the columns id (serial primary key), name (nullable,      *)
(* the identity field of get_or_create) and tag (default DefaultTag).      *)
(* One HTTP request is one atomic step of the server; a call that issues   *)
(* several requests is several steps, and other clients may act between.   *)
(***************************************************************************)
EXTENDS Integers, Sequences, FiniteSets, TLC

VARIABLES
    table,       \* the rows the server holds
    nextId,      \* the next value of the id sequence
    uniqueCols,  \* the columns (besides the primary key) with a UNIQUE constraint
    faults,      \* whether the server may answer a request with an error status
    pc,          \* per caller: where it is in its current call
    call,        \* per caller: the operation called and its arguments
    attrs,       \* per caller: self.attrs of the record instance it holds (<<>>: none)
    result,      \* per caller: what the call returned or raised
    reqs,        \* per caller: the HTTP exchanges of the current call, in order
    deleted,     \* per caller: its delete() removed the row of the instance it holds
    api          \* the PostgrestAPI under construction

vars == <<table, nextId, uniqueCols, faults, pc, call, attrs, result, reqs, deleted, api>>

server == <<table, nextId, uniqueCols, faults>>
callers == <<pc, call, attrs, result, reqs, deleted>>

\* ----------------------------------------------------------------- bounds
MaxId == 2

\* ------------------------------------------------------------ the values
Callers == {"a", "b"}
None == "None"
NUL == "\\u0000"
Names == {"x", "y"}
Tags == {<<"t">>, <<"u">>}
DefaultTag == <<"t">>
Columns == {"id", "name", "tag"}
Ids == 1..MaxId

EmptyMap == [k \in {} |-> None]

\* A wrapper around dict literals: the mappings with exactly the key k.
MapsOf(k, vals) == {[j \in {k} |-> v] : v \in vals}

Merge(f, g) == [k \in (DOMAIN f) \cup (DOMAIN g) |-> IF k \in DOMAIN g THEN g[k] ELSE f[k]]

\* ------------------------------------------------------ PostgrestResource
\* _get_or_create_keys and _pk_dict of the concrete resource (the base class
\* leaves both to the subclass): identity field name, primary key id.
GetOrCreateKeys == {"name"}

Eq(v) == [op |-> "eq", arg |-> v]
IsNull == [op |-> "is", arg |-> "null"]

PkDict(a) == [k \in {"id"} |-> Eq(a.id)]

\* _pk_url: the query string is the k=v pairs of _pk_dict.
PkUrl(a) == PkDict(a)

\* ------------------------------------------------------- the PostgREST server
Resp(status, reason, body) == [status |-> status, reason |-> reason, body |-> body]

\* The error statuses the server may answer any request with, whatever it asks.
FaultResponses ==
    IF faults
    THEN {Resp(404, "Not Found", <<>>), Resp(409, "Conflict", <<>>),
          Resp(500, "Internal Server Error", <<>>)}
    ELSE {}

\* A JSON array of rows, in primary-key order.
RECURSIVE SeqFrom(_)
SeqFrom(S) ==
    IF S = {} THEN <<>>
    ELSE LET r == CHOOSE r \in S : \A q \in S : r.id <= q.id
         IN <<r>> \o SeqFrom(S \ {r})

\* One filter of a query string, k=eq.v or k=is.null, against a row.
Holds(row, k, f) ==
    IF f.op = "is" THEN k = "name" /\ row.name = None
    ELSE row[k] = f.arg

Matches(row, query) == \A k \in DOMAIN query : Holds(row, k, query[k])

NotNull(row, col) == col # "name" \/ row.name # None

\* The table breaks its primary key or one of its UNIQUE constraints (SQL: NULLs
\* never collide).
Violates(T) ==
    \E r, s \in T :
        /\ r # s
        /\ \/ r.id = s.id
           \/ \E col \in uniqueCols : NotNull(r, col) /\ NotNull(s, col) /\ r[col] = s[col]

\* Text values holding a NUL are rejected by the store.
HasNul(row) == \E i \in 1..Len(row.tag) : row.tag[i] = NUL

\* GET {table}?{query}
ServerGet(query) ==
    (IF DOMAIN query \subseteq Columns
     THEN {Resp(200, "OK", SeqFrom({r \in table : Matches(r, query)}))}
     ELSE {Resp(400, "Bad Request", <<>>)})
    \cup FaultResponses

NewRow(body) ==
    [id |-> nextId,
     name |-> IF "name" \in DOMAIN body THEN body.name ELSE None,
     tag |-> IF "tag" \in DOMAIN body THEN body.tag ELSE DefaultTag]

\* POST {table} with Prefer: return=representation. Each outcome is the response
\* with the table and the sequence it leaves.
ServerPost(body) ==
    LET row == NewRow(body)
        ok == [resp |-> Resp(201, "Created", <<row>>), table |-> table \cup {row},
               nextId |-> nextId + 1]
        refused(r) == [resp |-> r, table |-> table, nextId |-> nextId]
    IN  (IF HasNul(row) THEN {refused(Resp(400, "Bad Request", <<>>))}
         ELSE IF Violates(table \cup {row}) THEN {refused(Resp(409, "Conflict", <<>>))}
         ELSE {ok})
        \cup {refused(r) : r \in FaultResponses}

\* PATCH {table}?{query}
ServerPatch(query, body) ==
    LET hit == {r \in table : Matches(r, query)}
        new == {Merge(r, body) : r \in hit}
        T == (table \ hit) \cup new
        refused(r) == [resp |-> r, table |-> table]
    IN  (IF \E r \in new : HasNul(r) THEN {refused(Resp(400, "Bad Request", <<>>))}
         ELSE IF Violates(T) \/ Cardinality(T) # Cardinality(table)
              THEN {refused(Resp(409, "Conflict", <<>>))}
         ELSE {[resp |-> Resp(200, "OK", SeqFrom(new)), table |-> T]})
        \cup {refused(r) : r \in FaultResponses}

\* DELETE {table}?{query}
ServerDelete(query) ==
    LET hit == {r \in table : Matches(r, query)}
        refused(r) == [resp |-> r, table |-> table]
    IN  {[resp |-> Resp(204, "No Content", <<>>), table |-> table \ hit]}
        \cup {refused(r) : r \in FaultResponses}

\* ------------------------------------------------ requests and their outcomes
\* One HTTP exchange of a call: the request sent, the status line answered and
\* the length of the JSON array in the answer.
Exchange(method, query, body, resp) ==
    [method |-> method, query |-> query, body |-> body,
     status |-> resp.status, reason |-> resp.reason, rows |-> Len(resp.body)]

NoMsg == [code |-> 0, kind |-> "", reason |-> ""]

Returned(shape, value, created) ==
    [kind |-> "return", exc |-> "", msg |-> NoMsg, shape |-> shape, value |-> value,
     created |-> created]

Raised(exc, msg) ==
    [kind |-> "raise", exc |-> exc, msg |-> msg, shape |-> "", value |-> <<>>,
     created |-> FALSE]

NoResult == Returned("", <<>>, FALSE)

\* requests' Response.raise_for_status: HTTPError for 400 <= status < 600.
RaisesForStatus(resp) == resp.status >= 400 /\ resp.status < 600

\* str(e) of that HTTPError: "<code> <Client|Server> Error: <reason> for url: ..."
HTTPErrorMsg(resp) ==
    [code |-> resp.status,
     kind |-> IF resp.status < 500 THEN "Client Error" ELSE "Server Error",
     reason |-> resp.reason]

PostgrestException(resp) == Raised("PostgrestException", HTTPErrorMsg(resp))

\* filter, lines 94-100: the list of records built from the JSON array.
FilterOutcome(resp) ==
    IF RaisesForStatus(resp) THEN PostgrestException(resp)
    ELSE Returned("list", resp.body, FALSE)

\* get without its assertion: the first record, however many match.
GetOutcomeFirst(resp) ==
    LET objects == FilterOutcome(resp)
    IN  IF objects.kind = "raise" THEN objects
        ELSE IF Len(objects.value) > 0
             THEN Returned("record", <<objects.value[1]>>, FALSE)
             ELSE Returned("None", <<>>, FALSE)

\* get
GetOutcome(resp) ==
    LET objects == FilterOutcome(resp)
    IN  IF objects.kind = "raise" THEN objects
        ELSE IF Len(objects.value) > 0
             THEN IF Len(objects.value) = 1
                  THEN Returned("record", <<objects.value[1]>>, FALSE)
                  ELSE Raised("AssertionError", NoMsg)
             ELSE Returned("None", <<>>, FALSE)

\* refresh: obj = self.get(self._pk_dict); obj.attrs of None is an AttributeError.
RefreshOutcome(resp) ==
    LET obj == GetOutcome(resp)
    IN  IF obj.kind = "raise" THEN obj
        ELSE IF obj.shape = "None" THEN Raised("AttributeError", NoMsg)
        ELSE Returned("None", <<>>, FALSE)

\* refresh that fetches and drops what it fetched.
RefreshAttrsKept(old, resp) == old

\* refresh: self.attrs = obj.attrs.copy(), when the line is reached.
RefreshAttrs(old, resp) ==
    LET obj == GetOutcome(resp)
    IN  IF obj.kind = "return" /\ obj.shape = "record" THEN obj.value ELSE old

\* put: json.dumps(payload) with every \u0000 escape removed.
StripNul(payload) ==
    [k \in DOMAIN payload |->
        IF k = "tag" THEN SelectSeq(payload[k], LAMBDA ch : ch # NUL) ELSE payload[k]]

\* "if payload is not None:", with the default payload replaced by {}.
TruthyNotNone(payload) == TRUE

\* update: "if payload:"
Truthy(payload) == DOMAIN payload # {}

\* create: the record built from attrs[0] of the POST's JSON array.
CreateOutcome(resp) ==
    IF RaisesForStatus(resp) THEN PostgrestException(resp)
    ELSE IF Len(resp.body) = 0 THEN Raised("IndexError", NoMsg)
    ELSE Returned("record", <<resp.body[1]>>, FALSE)

\* delete
DeleteOutcome(resp) ==
    IF RaisesForStatus(resp) THEN PostgrestException(resp)
    ELSE Returned("None", <<>>, FALSE)

\* The name a JSON-marked parameter name would take under the ->> operator.
JsonSuffix == "__json"
JsonMarked == {"tag" \o JsonSuffix}
IsJsonMarked(k) == k \in JsonMarked
ArrowName(k) == IF IsJsonMarked(k) THEN "tag->>" ELSE k

\* filter with the JSON-marked names rewritten.
FilterQueryArrow(params) ==
    [a \in {ArrowName(k) : k \in DOMAIN params} |->
        params[CHOOSE k \in DOMAIN params : ArrowName(k) = a]]

\* filter: the params are the query parameters of the GET ("params or {}").
FilterQuery(params) == params

\* get_or_create without the check of its identity keys.
MissingKeysSkipped(params) == {}

\* get_or_create, the loop of lines 166-168: the identity keys params lacks.
MissingKeys(params) == GetOrCreateKeys \ DOMAIN params

\* get_or_create.__get: the query over the identity keys of params.
IdentityQuery(params) ==
    [k \in (DOMAIN params) \cap GetOrCreateKeys |->
        IF params[k] = None THEN IsNull ELSE Eq(params[k])]

\* A bare "except PostgrestException: pass".
IsConflictAnyError(msg) == TRUE

\* The test for a text requests never produces.
IsConflictWrongText(msg) == msg.code = 409 /\ msg.kind = "Conflict"

\* get_or_create, line 176: '409 Client Error: Conflict for' in str(e)
IsConflict(msg) == msg.code = 409 /\ msg.kind = "Client Error" /\ msg.reason = "Conflict"

\* ------------------------------------------------------------ the inputs
JsonName == "tag" \o JsonSuffix

FilterParams ==
    {EmptyMap}
    \cup MapsOf("id", {Eq(i) : i \in Ids})
    \cup MapsOf("name", {Eq(n) : n \in Names} \cup {IsNull})
    \cup MapsOf("tag", {Eq(t) : t \in Tags})
    \cup MapsOf(JsonName, {Eq(t) : t \in Tags})

RowParams ==
    {EmptyMap}
    \cup MapsOf("name", Names \cup {None})
    \cup MapsOf("tag", Tags)
    \cup {Merge(f, g) : f \in MapsOf("name", Names \cup {None}), g \in MapsOf("tag", Tags)}

Payloads ==
    {EmptyMap}
    \cup MapsOf("id", Ids)
    \cup MapsOf("name", Names)
    \cup MapsOf("tag", Tags \cup {<<"t", NUL>>})

NoCall == [op |-> "none", query |-> EmptyMap, data |-> EmptyMap]
Call(op, query, data) == [op |-> op, query |-> query, data |-> data]

\* ------------------------------------------------------------ the calls
\* What a step of caller c leaves: its position, result and request log.
Step(c, to, res, sent) ==
    /\ pc' = [pc EXCEPT ![c] = to]
    /\ result' = [result EXCEPT ![c] = res]
    /\ reqs' = [reqs EXCEPT ![c] = reqs[c] \o sent]

Filter(c) ==
    /\ pc[c] = "idle"
    /\ \E params \in FilterParams : \E resp \in ServerGet(FilterQuery(params)) :
        /\ call' = [call EXCEPT ![c] = Call("filter", params, EmptyMap)]
        /\ Step(c, "done", FilterOutcome(resp),
                <<Exchange("GET", FilterQuery(params), EmptyMap, resp)>>)
    /\ UNCHANGED <<server, attrs, deleted, api>>

Get(c) ==
    /\ pc[c] = "idle"
    /\ \E params \in FilterParams : \E resp \in ServerGet(FilterQuery(params)) :
        /\ call' = [call EXCEPT ![c] = Call("get", params, EmptyMap)]
        /\ Step(c, "done", GetOutcome(resp),
                <<Exchange("GET", FilterQuery(params), EmptyMap, resp)>>)
    /\ UNCHANGED <<server, attrs, deleted, api>>

\* refresh, as a call of its own and as the tail of update.
RefreshStep(c) ==
    \E resp \in ServerGet(FilterQuery(PkDict(attrs[c][1]))) :
        /\ Step(c, "done", RefreshOutcome(resp),
                <<Exchange("GET", FilterQuery(PkDict(attrs[c][1])), EmptyMap, resp)>>)
        /\ attrs' = [attrs EXCEPT ![c] = RefreshAttrs(attrs[c], resp)]

Refresh(c) ==
    /\ pc[c] = "idle"
    /\ attrs[c] # <<>>
    /\ call' = [call EXCEPT ![c] = Call("refresh", EmptyMap, EmptyMap)]
    /\ RefreshStep(c)
    /\ UNCHANGED <<server, deleted, api>>

\* update, up to its first request: the PATCH of put, or with a falsy payload
\* the GET of refresh.
Update(c) ==
    /\ pc[c] = "idle"
    /\ attrs[c] # <<>>
    /\ \E payload \in Payloads :
        /\ call' = [call EXCEPT ![c] = Call("update", EmptyMap, payload)]
        /\ IF Truthy(payload)
           THEN \E o \in ServerPatch(PkUrl(attrs[c][1]), StripNul(payload)) :
                    /\ table' = o.table
                    /\ IF RaisesForStatus(o.resp)
                       THEN Step(c, "done", PostgrestException(o.resp),
                                 <<Exchange("PATCH", PkUrl(attrs[c][1]), StripNul(payload), o.resp)>>)
                       ELSE Step(c, "update_refresh", NoResult,
                                 <<Exchange("PATCH", PkUrl(attrs[c][1]), StripNul(payload), o.resp)>>)
                    /\ UNCHANGED attrs
           ELSE RefreshStep(c) /\ UNCHANGED table
    /\ UNCHANGED <<nextId, uniqueCols, faults, deleted, api>>

\* update, after put returned: self.refresh()
UpdateRefresh(c) ==
    /\ pc[c] = "update_refresh"
    /\ RefreshStep(c)
    /\ UNCHANGED <<server, call, deleted, api>>

Create(c) ==
    /\ pc[c] = "idle"
    /\ nextId <= MaxId
    /\ \E params \in RowParams : \E o \in ServerPost(params) :
        /\ call' = [call EXCEPT ![c] = Call("create", EmptyMap, params)]
        /\ table' = o.table
        /\ nextId' = o.nextId
        /\ Step(c, "done", CreateOutcome(o.resp), <<Exchange("POST", EmptyMap, params, o.resp)>>)
    /\ UNCHANGED <<uniqueCols, faults, attrs, deleted, api>>

Delete(c) ==
    /\ pc[c] = "idle"
    /\ attrs[c] # <<>>
    /\ \E o \in ServerDelete(PkUrl(attrs[c][1])) :
        /\ call' = [call EXCEPT ![c] = Call("delete", EmptyMap, EmptyMap)]
        /\ table' = o.table
        /\ Step(c, "done", DeleteOutcome(o.resp),
                <<Exchange("DELETE", PkUrl(attrs[c][1]), EmptyMap, o.resp)>>)
        /\ deleted' = [deleted EXCEPT ![c] = deleted[c] \/ (attrs[c][1] \in table \ o.table)]
    /\ UNCHANGED <<nextId, uniqueCols, faults, attrs, api>>

\* get_or_create(params), up to its first request: the check of the identity
\* keys, then found = __get(params).
GetOrCreate(c, params) ==
    /\ pc[c] = "idle"
    /\ call' = [call EXCEPT ![c] = Call("get_or_create", EmptyMap, params)]
    /\ IF MissingKeys(params) # {}
       THEN Step(c, "done", Raised("ValueError", NoMsg), <<>>)
       ELSE \E resp \in ServerGet(FilterQuery(IdentityQuery(params))) :
                LET found == GetOutcome(resp)
                    sent == <<Exchange("GET", FilterQuery(IdentityQuery(params)), EmptyMap, resp)>>
                IN  IF found.kind = "raise" THEN Step(c, "done", found, sent)
                    ELSE IF found.shape = "record"
                         THEN Step(c, "done", Returned("pair", found.value, FALSE), sent)
                    ELSE Step(c, "goc_create", NoResult, sent)
    /\ UNCHANGED <<server, attrs, deleted, api>>

GetOrCreateCall(c) == \E params \in RowParams : GetOrCreate(c, params)

\* get_or_create, lines 173-177: return self.create(params), True, unless the
\* POST's error is the conflict.
GetOrCreateCreate(c) ==
    /\ pc[c] = "goc_create"
    /\ nextId <= MaxId
    /\ \E o \in ServerPost(call[c].data) :
        LET made == CreateOutcome(o.resp)
            sent == <<Exchange("POST", EmptyMap, call[c].data, o.resp)>>
        IN  /\ table' = o.table
            /\ nextId' = o.nextId
            /\ IF made.kind = "return"
               THEN Step(c, "done", Returned("pair", made.value, TRUE), sent)
               ELSE IF made.exc = "PostgrestException" /\ IsConflict(made.msg)
                    THEN Step(c, "goc_fallback", NoResult, sent)
               ELSE Step(c, "done", made, sent)
    /\ UNCHANGED <<uniqueCols, faults, call, attrs, deleted, api>>

\* get_or_create, line 178: return __get(params), False
GetOrCreateFallback(c) ==
    /\ pc[c] = "goc_fallback"
    /\ \E resp \in ServerGet(FilterQuery(IdentityQuery(call[c].data))) :
        LET again == GetOutcome(resp)
            sent == <<Exchange("GET", FilterQuery(IdentityQuery(call[c].data)), EmptyMap, resp)>>
        IN  IF again.kind = "raise" THEN Step(c, "done", again, sent)
            ELSE Step(c, "done", Returned("pair", again.value, FALSE), sent)
    /\ UNCHANGED <<server, call, attrs, deleted, api>>

\* The call is over: the caller goes on with the instance it had or with one of
\* the instances the call returned (each built by __init__ from a copy of the
\* attrs of its row).
Return(c) ==
    /\ pc[c] = "done"
    /\ pc' = [pc EXCEPT ![c] = "idle"]
    /\ call' = [call EXCEPT ![c] = NoCall]
    /\ result' = [result EXCEPT ![c] = NoResult]
    /\ reqs' = [reqs EXCEPT ![c] = <<>>]
    /\ \/ UNCHANGED <<attrs, deleted>>
       \/ \E i \in 1..Len(result[c].value) :
            /\ attrs' = [attrs EXCEPT ![c] = <<result[c].value[i]>>]
            /\ deleted' = [deleted EXCEPT ![c] = FALSE]
    /\ UNCHANGED <<server, api>>

\* Another client of the same server creates a row: its create() call, whole.
\* (Other clients act between the requests of a call and between calls; a step
\* of theirs after a call's last request is taken after the call has returned.)
OtherCreate ==
    /\ \A c \in Callers : pc[c] # "done"
    /\ nextId <= MaxId
    /\ \E params \in RowParams : \E o \in ServerPost(params) :
        /\ ~RaisesForStatus(o.resp)
        /\ table' = o.table
        /\ nextId' = o.nextId
    /\ UNCHANGED <<uniqueCols, faults, callers, api>>

\* Another client deletes a record it holds: its delete() call, whole.
OtherDelete ==
    /\ \A c \in Callers : pc[c] # "done"
    /\ \E r \in table : \E o \in ServerDelete(PkUrl(r)) :
        /\ ~RaisesForStatus(o.resp)
        /\ table' = o.table
    /\ UNCHANGED <<nextId, uniqueCols, faults, callers, api>>

\* ------------------------------------------------------------ PostgrestAPI
\* The names the module's imports bind (lines 17-30).
ModuleGlobals == {"datetime", "json", "logging", "os", "re", "requests", "sys", "urlparse"}

Hosts == {"db.example.com", "localhost"}
Ports == {":3000", ":80"}
Paths == {"/", "/api"}
Queries == {"?v=1"}
Opt(S) == {<<>>} \cup {<<x>> : x \in S}

\* A connection URL, cut into its parts.
Schemes == {<<>>, <<"http", "://">>, <<"https", "://">>}
Urls ==
    {s \o <<h>> \o p \o d \o q :
        s \in Schemes, h \in Hosts, p \in Opt(Ports), d \in Opt(Paths), q \in Opt(Queries)}

\* re.match(r'https?://', url)
MatchesHttp(url) == Len(url) >= 2 /\ url[1] \in {"http", "https"} /\ url[2] = "://"

WithScheme(url) == IF MatchesHttp(url) THEN url ELSE <<"http", "://">> \o url

\* urlparse: the scheme before "://", the netloc after it up to the path or query.
UrlScheme(url) == url[1]
RECURSIVE Netloc(_)
Netloc(rest) ==
    IF rest = <<>> \/ Head(rest) \in Paths \cup Queries THEN <<>>
    ELSE <<Head(rest)>> \o Netloc(Tail(rest))

\* parts.scheme + '://' + parts.netloc
BaseUrl(url) == <<UrlScheme(url), "://">> \o Netloc(SubSeq(url, 3, Len(url)))

NoApi == [state |-> "none", arg |-> <<>>, connection_url |-> <<>>]

\* PostgrestAPI.__init__: line 188 reads the global name urllib.
Construct ==
    /\ api.state = "new"
    /\ api' = IF "urllib" \in ModuleGlobals
              THEN [api EXCEPT !.state = "constructed",
                               !.connection_url = BaseUrl(WithScheme(api.arg))]
              ELSE [api EXCEPT !.state = "NameError",
                               !.connection_url = WithScheme(api.arg)]
    /\ UNCHANGED <<server, callers>>

\* ------------------------------------------------------- the specifications
IdleCallers ==
    /\ pc = [c \in Callers |-> "idle"]
    /\ call = [c \in Callers |-> NoCall]
    /\ attrs = [c \in Callers |-> <<>>]
    /\ result = [c \in Callers |-> NoResult]
    /\ reqs = [c \in Callers |-> <<>>]
    /\ deleted = [c \in Callers |-> FALSE]

UniqueChoices == {{"name"}, {"name", "tag"}}

\* One caller with every record operation, other clients creating and deleting
\* rows, and a server that may fail any request.
Init ==
    /\ table = {}
    /\ nextId = 1
    /\ uniqueCols \in UniqueChoices
    /\ faults = TRUE
    /\ IdleCallers
    /\ api = NoApi

Next ==
    \/ Filter("a")
    \/ Get("a")
    \/ Refresh("a")
    \/ Update("a")
    \/ UpdateRefresh("a")
    \/ Create("a")
    \/ Delete("a")
    \/ GetOrCreateCall("a")
    \/ GetOrCreateCreate("a")
    \/ GetOrCreateFallback("a")
    \/ Return("a")
    \/ OtherCreate
    \/ OtherDelete

Spec == Init /\ [][Next]_vars

\* The same caller and the same other clients, on a server that answers every
\* request as PostgREST does for the table.
ReliableInit ==
    /\ table = {}
    /\ nextId = 1
    /\ uniqueCols \in UniqueChoices
    /\ faults = FALSE
    /\ IdleCallers
    /\ api = NoApi

SpecReliable == ReliableInit /\ [][Next]_vars

\* Two callers of get_or_create with the same identity value, on a table with a
\* UNIQUE constraint on the identity field and no row of that value, and a
\* server that answers every request.
Rows == [id : Ids, name : Names \cup {None}, tag : Tags]

RaceInit ==
    /\ uniqueCols = {"name"}
    /\ faults = FALSE
    /\ nextId \in Ids
    /\ table \in {T \in SUBSET Rows : (\A r \in T : r.id < nextId) /\ ~Violates(T)}
    /\ IdleCallers
    /\ api = NoApi

RaceCall(c) ==
    \E params \in RowParams :
        /\ "name" \in DOMAIN params
        /\ params.name # None
        /\ \A d \in Callers \ {c} :
               IF call[d].op = "none" THEN TRUE ELSE call[d].data.name = params.name
        /\ IF \A d \in Callers : call[d].op = "none"
           THEN ~\E r \in table : Matches(r, IdentityQuery(params))
           ELSE TRUE
        /\ GetOrCreate(c, params)

RaceNext ==
    \E c \in Callers :
        \/ RaceCall(c)
        \/ GetOrCreateCreate(c)
        \/ GetOrCreateFallback(c)

SpecRace == RaceInit /\ [][RaceNext]_vars

\* The construction of a PostgrestAPI, for every connection URL.
ApiInit ==
    /\ table = {}
    /\ nextId = 1
    /\ uniqueCols = {"name"}
    /\ faults = FALSE
    /\ IdleCallers
    /\ api \in {[state |-> "new", arg |-> u, connection_url |-> <<>>] : u \in Urls}

ApiNext == Construct

SpecApi == ApiInit /\ [][ApiNext]_vars

\* ------------------------------------------------------------ the claims
Done(c, op) == pc[c] = "done" /\ call[c].op = op
IsRecord(res) == res.kind = "return" /\ Len(res.value) = 1
Hits(query) == {r \in table : Matches(r, query)}

C2_GetByCount ==
    \A c \in Callers :
        (Done(c, "get") /\ reqs[c][1].status = 200) =>
            LET n == Cardinality(Hits(call[c].query))
            IN  /\ n = 0 => result[c] = Returned("None", <<>>, FALSE)
                /\ n = 1 => /\ result[c].kind = "return" /\ result[c].shape = "record"
                            /\ Len(result[c].value) = 1
                            /\ result[c].value[1] \in Hits(call[c].query)
                /\ n > 1 => result[c] = Raised("AssertionError", NoMsg)

C2_Witness ==
    \E c \in Callers :
        /\ Done(c, "get") /\ reqs[c][1].status = 200
        /\ Cardinality(Hits(call[c].query)) > 1
        /\ result[c].exc = "AssertionError"

\* C3: when update(payload) returns normally, self.attrs is the row the server
\* holds under the record's primary key.
C3_UpdateInSync ==
    \A c \in Callers :
        (Done(c, "update") /\ result[c].kind = "return") =>
            /\ Len(attrs[c]) = 1
            /\ Hits(PkDict(attrs[c][1])) = {attrs[c][1]}

\* update sent a payload and returned: the PATCH changed the row, the GET
\* brought the change back.
C3_Witness ==
    \E c \in Callers :
        /\ Done(c, "update") /\ result[c].kind = "return"
        /\ Len(reqs[c]) = 2
        /\ \E k \in DOMAIN reqs[c][1].body : attrs[c][1][k] = reqs[c][1].body[k]

\* C4: refresh() on an instance whose row this caller's delete() removed raises
\* PostgrestException.
C4_StaleRefreshRaisesTransportError ==
    \A c \in Callers :
        (Done(c, "refresh") /\ deleted[c]) =>
            (result[c].kind = "raise" /\ result[c].exc = "PostgrestException")

\* C5: in get_or_create an error status is recovered from only when it is the
\* 409 Conflict of the create POST, and then exactly one more request follows,
\* the GET by the identity fields; every other error status is the last
\* exchange of the call and is raised as PostgrestException.
C5_OnlyConflictRecovered ==
    \A c \in Callers :
        call[c].op = "get_or_create" =>
            \A i \in 1..Len(reqs[c]) :
                reqs[c][i].status >= 400 =>
                    IF reqs[c][i].method = "POST" /\ reqs[c][i].status = 409
                    THEN /\ i = 2
                         /\ \/ (pc[c] = "goc_fallback" /\ Len(reqs[c]) = 2)
                            \/ /\ pc[c] = "done" /\ Len(reqs[c]) = 3
                               /\ reqs[c][3].method = "GET"
                               /\ reqs[c][3].query = IdentityQuery(call[c].data)
                    ELSE /\ i = Len(reqs[c])
                         /\ pc[c] = "done"
                         /\ result[c].kind = "raise"
                         /\ result[c].exc = "PostgrestException"
                         /\ result[c].msg.code = reqs[c][i].status

\* The conflict was recovered from and the fallback GET failed in its turn.
C5_Witness ==
    \E c \in Callers :
        /\ Done(c, "get_or_create") /\ Len(reqs[c]) = 3
        /\ reqs[c][2].status = 409 /\ reqs[c][3].status = 500
        /\ result[c].exc = "PostgrestException"

\* C6: a get_or_create call whose params lack an identity key raises ValueError
\* with no request sent and the server as it was.
C6_ValidationBeforeRequest ==
    [][\A c \in Callers :
        (pc[c] = "idle" /\ pc'[c] # "idle" /\ call'[c].op = "get_or_create"
            /\ ~(GetOrCreateKeys \subseteq DOMAIN call'[c].data)) =>
                /\ pc'[c] = "done"
                /\ result'[c] = Raised("ValueError", NoMsg)
                /\ reqs'[c] = <<>>
                /\ server' = server]_vars

C6_Witness ==
    \E c \in Callers :
        /\ Done(c, "get_or_create")
        /\ ~(GetOrCreateKeys \subseteq DOMAIN call[c].data)
        /\ result[c].exc = "ValueError"

\* What the base URL of a connection URL should be: http:// for a missing
\* scheme, else the scheme given, then host[:port] and nothing else.
Normalized(url) ==
    LET given == MatchesHttp(url)
        rest == IF given THEN SubSeq(url, 3, Len(url)) ELSE url
    IN  <<IF given THEN url[1] ELSE "http", "://">>
        \o SelectSeq(rest, LAMBDA x : x \in Hosts \cup Ports)

\* C7: constructing a PostgrestAPI succeeds, with the normalized base URL.
C7_ConstructNormalizes ==
    api.state \notin {"none", "new"} =>
        (api.state = "constructed" /\ api.connection_url = Normalized(api.arg))

C9_OneRequestPerCall ==
    \A c \in Callers : pc[c] = "done" => Len(reqs[c]) = 1

\* C9 as amended: filter, get, refresh, create and delete issue exactly one
\* request; update issues two when it has a payload and the PATCH succeeds, else
\* one; get_or_create issues none when an identity key is missing, else one
\* when the lookup fails or finds rows, three when the POST is answered 409
\* Conflict, and two otherwise.
C9_RequestsPerCall ==
    \A c \in Callers :
        pc[c] = "done" =>
            LET n == Len(reqs[c])
            IN  CASE call[c].op \in {"filter", "get", "refresh", "create", "delete"} -> n = 1
                  [] call[c].op = "update" ->
                        IF DOMAIN call[c].data # {} /\ reqs[c][1].status < 400
                        THEN n = 2 ELSE n = 1
                  [] call[c].op = "get_or_create" ->
                        IF ~(GetOrCreateKeys \subseteq DOMAIN call[c].data) THEN n = 0
                        ELSE IF reqs[c][1].status >= 400 \/ reqs[c][1].rows > 0
                             THEN n = 1
                        ELSE IF reqs[c][2].status = 409 THEN n = 3
                        ELSE n = 2

C9_Witness ==
    \E c \in Callers :
        /\ Done(c, "get_or_create") /\ Len(reqs[c]) = 3
        /\ result[c].kind = "return"

\* C10: whenever get_or_create returns, the first element of the pair is a
\* record.
C10_ReturnsRecord ==
    \A c \in Callers :
        (Done(c, "get_or_create") /\ result[c].kind = "return") =>
            Len(result[c].value) = 1

====
